---- MODULE Spec2Model ----
(***************************************************************************)
(* Model of notion_todo_importer (src/main.py): the paginated page fetcher *)
(* and block extractor, the TODO detector, the record creator and the      *)
(* source mutator, run against a model of the remote document service.     *)
(*                                                                         *)
(* Text is modelled character by character (a string is a sequence of      *)
(* one-character strings), so that the regular expressions TODO_DETECT and *)
(* TODO_REMOVE are computed as Python's re module computes them.           *)
(***************************************************************************)
EXTENDS Integers, Sequences, FiniteSets, TLC

(***************************************************************************)
(* Bounds of the model.                                                    *)
(***************************************************************************)
MaxPages == 2        \* human-authored pages in the database
MaxPageSize == 2     \* items the service returns per response
MaxErrors == 2       \* remote API errors injected in one run
MaxRecords == 4      \* records created in one run
NumDays == 2         \* dates of the --since range (start date .. today)
MaxPieces == 4       \* pieces an input line of the extraction is made of

None == 0            \* Python None / a missing cursor

(***************************************************************************)
(* Characters and Python string helpers.                                   *)
(***************************************************************************)
WordChars == {"t", "o", "d", "T", "O", "D", "N", "E", "a", "b", "s", "x", "X"}

\* \s of the re module
SpaceChars == {" ", "\n"}

\* \W of the re module (it contains \s)
NonWordChars == SpaceChars \cup {"-", ":", "[", "]"}

Alphabet == WordChars \cup NonWordChars

IsWord(c) == c \in WordChars

\* re.IGNORECASE on the letters of the marker
Lower(c) == CASE c = "T" -> "t" [] c = "O" -> "o" [] c = "D" -> "d" [] OTHER -> c

Drop(s, n) == SubSeq(s, n + 1, Len(s))

Take(s, n) == SubSeq(s, 1, n)

\* length of the longest prefix of s, from position p on, whose characters are in cls
RECURSIVE RunLen(_, _, _)
RunLen(s, p, cls) ==
    IF p <= Len(s) /\ s[p] \in cls THEN 1 + RunLen(s, p + 1, cls) ELSE 0

\* s has the lower-case word w at position p (case-insensitively)
HasAt(s, p, w) ==
    /\ p + Len(w) - 1 <= Len(s)
    /\ \A k \in 1..Len(w) : Lower(s[p + k - 1]) = w[k]

\* the group (todo|to-?do|to\s+do) at position p: the length it matches, 0 if none
MarkerLen(s, p) ==
    IF HasAt(s, p, <<"t", "o", "d", "o">>) THEN 4
    ELSE IF HasAt(s, p, <<"t", "o", "-", "d", "o">>) THEN 5
    ELSE IF HasAt(s, p, <<"t", "o">>) /\ RunLen(s, p + 2, SpaceChars) > 0
            /\ HasAt(s, p + 2 + RunLen(s, p + 2, SpaceChars), <<"d", "o">>)
         THEN 4 + RunLen(s, p + 2, SpaceChars)
    ELSE 0

\* TODO_DETECT.search(line): ^[\s\W]*(todo|to-?do|to\s+do)\b
TODO_DETECT(line) ==
    LET p == 1 + RunLen(line, 1, NonWordChars)
        m == MarkerLen(line, p)
    IN  /\ m > 0
        /\ (IF p + m > Len(line) THEN TRUE ELSE ~IsWord(line[p + m]))

\* end (exclusive of the rest) of the match of TODO_REMOVE at the start of s,
\* ^[\s\W]*(todo|to-?do|to\s+do)[\s:]* ; 0 when it does not match
TODO_REMOVE_End(s) ==
    LET p == 1 + RunLen(s, 1, NonWordChars)
        m == MarkerLen(s, p)
    IN  IF m = 0 THEN 0 ELSE p + m - 1 + RunLen(s, p + m, SpaceChars \cup {":"})

\* TODO_REMOVE.sub(repl, s, count=1)
TODO_REMOVE_sub(repl, s) ==
    IF TODO_REMOVE_End(s) = 0 THEN s ELSE repl \o Drop(s, TODO_REMOVE_End(s))

\* str.splitlines()
RECURSIVE splitlines(_)
splitlines(s) ==
    IF s = <<>> THEN <<>>
    ELSE LET n == RunLen(s, 1, Alphabet \ {"\n"})
         IN  <<Take(s, n)>> \o splitlines(Drop(s, n + 1))

DONE == <<"D", "O", "N", "E", " ">>

\* str.strip()
strip(s) ==
    LET a == RunLen(s, 1, SpaceChars)
        RECURSIVE TrailLen(_)
        TrailLen(n) == IF n >= 1 /\ s[n] \in SpaceChars THEN 1 + TrailLen(n - 1) ELSE 0
    IN  IF a = Len(s) THEN <<>> ELSE SubSeq(s, a + 1, Len(s) - TrailLen(Len(s)))

\* re.sub(r"^\s*\[\s*[xX]?\s*\]\s*", "", line) of process_date
StripCheckbox(line) ==
    LET a == 1 + RunLen(line, 1, SpaceChars)                 \* position of "["
        b == a + 1 + RunLen(line, a + 1, SpaceChars)         \* after "[" and \s*
        \* \s*[xX]?\s*\] : the optional x is taken when it is there
        c == IF b <= Len(line) /\ line[b] \in {"x", "X"}
             THEN b + 1 + RunLen(line, b + 1, SpaceChars) ELSE b
    IN  IF a <= Len(line) /\ line[a] = "[" /\ c <= Len(line) /\ line[c] = "]"
        THEN Drop(line, c + RunLen(line, c + 1, SpaceChars))
        ELSE line

\* clean_line of process_date
CleanLine(line) == strip(StripCheckbox(line))

\* clean_text of create_todo_page
CleanText(todo_text) ==
    LET t1 == strip(todo_text)
        t2 == strip(TODO_REMOVE_sub(<<>>, t1))
    IN  strip(Drop(t2, RunLen(t2, 1, SpaceChars \cup {":", "-"})))

(***************************************************************************)
(* Blocks and rich text as the service returns them.  A rich-text segment  *)
(* of type "text" carries text.content (and plain_text, equal to it); a    *)
(* segment of another type (a mention) carries plain_text only.            *)
(***************************************************************************)
TextSeg(t, url) == [plain_text |-> t, content |-> t, link |-> url, hasText |-> TRUE]

MentionSeg(t) == [plain_text |-> t, content |-> <<>>, link |-> "", hasText |-> FALSE]

Block(type, rt) == [type |-> type, rich_text |-> rt, checked |-> FALSE]

RichTextTypes == {"paragraph", "to_do", "bulleted_list_item", "numbered_list_item"}

\* list_block_types of process_date
list_block_types == {"bulleted_list_item", "numbered_list_item"}

\* "- [ ] TODO: a"
TxtCheckboxTodo == <<"-", " ", "[", " ", "]", " ", "T", "O", "D", "O", ":", " ", "a">>
\* "TODO a\nto do b"
TxtTwoTodoLines == <<"T", "O", "D", "O", " ", "a", "\n", "t", "o", " ", "d", "o", " ", "b">>
\* "a\nTODO x"
TxtTodoSecondLine == <<"a", "\n", "T", "O", "D", "O", " ", "x">>
\* "TODO "
TxtTodo == <<"T", "O", "D", "O", " ">>
\* "to-do b"
TxtToDashDo == <<"t", "o", "-", "d", "o", " ", "b">>
\* "TODO x"
TxtTodoX == <<"T", "O", "D", "O", " ", "x">>
\* "a todo"
TxtMidLine == <<"a", " ", "t", "o", "d", "o">>
\* "todos"
TxtTodos == <<"t", "o", "d", "o", "s">>

\* The pages a database is drawn from: blocks, the day of the Finish Before
\* property (None when unset), the Parent item and Sub-item relations.
Layouts == <<
    [blocks |-> << Block("paragraph", <<TextSeg(TxtCheckboxTodo, "")>>),
                   Block("bulleted_list_item", <<TextSeg(<<"a">>, "u")>>),
                   Block("numbered_list_item", <<TextSeg(<<"b">>, "")>>),
                   Block("paragraph", <<TextSeg(<<"a">>, "")>>) >>,
     finish |-> None, parent |-> <<>>, sub_items |-> <<90>>],
    [blocks |-> << Block("to_do", <<TextSeg(TxtTwoTodoLines, "")>>),
                   Block("paragraph", <<TextSeg(TxtTodoSecondLine, "")>>) >>,
     finish |-> 2, parent |-> <<>>, sub_items |-> <<>>],
    [blocks |-> << Block("paragraph", <<TextSeg(TxtTodo, ""), TextSeg(TxtToDashDo, "u")>>),
                   Block("bulleted_list_item", <<TextSeg(TxtTodoX, "")>>),
                   Block("divider", <<>>) >>,
     finish |-> 2, parent |-> <<91>>, sub_items |-> <<>>],
    [blocks |-> << Block("paragraph", <<TextSeg(TxtTodo, ""), MentionSeg(<<"a">>)>>) >>,
     finish |-> None, parent |-> <<>>, sub_items |-> <<>>],
    [blocks |-> << Block("paragraph", <<TextSeg(TxtMidLine, "")>>),
                   Block("paragraph", <<TextSeg(TxtTodos, "")>>) >>,
     finish |-> None, parent |-> <<>>, sub_items |-> <<>>]
  >>

\* the page object of the k-th human-authored page, created on the first day
HumanPage(k, layout) ==
    [id |-> k, created |-> 1, finish |-> layout.finish, tags |-> {},
     title |-> <<>>, parent |-> layout.parent, sub_items |-> layout.sub_items]

(***************************************************************************)
(* The remote service: cursor pagination over a list of items.  A cursor   *)
(* is the position of the next item; a request without start_cursor is     *)
(* served from the first item.                                             *)
(***************************************************************************)
Min(a, b) == IF a < b THEN a ELSE b

ServePaginated(items, params, size) ==
    LET from == IF "start_cursor" \in DOMAIN params THEN params.start_cursor ELSE 1
        to == Min(from + size - 1, Len(items))
    IN  [results |-> SubSeq(items, from, to),
         has_more |-> to < Len(items),
         next_cursor |-> IF to < Len(items) THEN to + 1 ELSE None]

\* date_filter of process_date, as the service evaluates it on a page
date_filter_NoTagExclusion(target_date, pg) ==
    pg.created = target_date \/ pg.finish = target_date

date_filter(target_date, pg) ==
    /\ (pg.created = target_date \/ pg.finish = target_date)
    /\ "Auto Generated" \notin pg.tags

(***************************************************************************)
(* The functions of main.py.                                               *)
(***************************************************************************)
RECURSIVE JoinPlainText(_)
JoinPlainText(rt) ==
    IF rt = <<>> THEN <<>> ELSE Head(rt).plain_text \o JoinPlainText(Tail(rt))

extract_text_from_block(block) ==
    IF block.type \in RichTextTypes THEN JoinPlainText(block.rich_text) ELSE <<>>

\* The keyword arguments of client.data_sources.query in get_all_database_pages.
\* The client library forwards to the service only the parameters the endpoint
\* knows (filter, sorts, start_cursor, page_size, ...): a next_cursor argument
\* never reaches the service as a start cursor.
DatabaseQueryParams(filter, next_cursor) ==
    [filter |-> filter, next_cursor |-> next_cursor]

\* query_params of get_page_blocks
BlockListParams(page_id, next_cursor) ==
    IF next_cursor # None
    THEN [block_id |-> page_id, start_cursor |-> next_cursor]
    ELSE [block_id |-> page_id]

\* "if not response.get('has_more'): break" of the two pagination loops
QueryLoopContinues(resp) == resp.has_more

BlockLoopStopsAfterFirst(resp) == FALSE

BlockLoopContinues(resp) == resp.has_more

\* the loop "while j < len(blocks) and blocks[j].get('type') in list_block_types"
RECURSIVE CollectFrom(_, _, _)
CollectFrom(blks, j, types) ==
    IF j <= Len(blks) /\ blks[j].type \in types
    THEN <<blks[j]>> \o CollectFrom(blks, j + 1, types)
    ELSE <<>>

FollowingBulletedOnly(blks, idx) == CollectFrom(blks, idx + 1, {"bulleted_list_item"})

FollowingListBlocks(blks, idx) == CollectFrom(blks, idx + 1, list_block_types)

\* "break  # Only process the first TODO line per block": the line loop is left
ContinueWithNextLine(cur, lns) == cur + 1

BreakLineLoop(cur, lns) == Len(lns) + 1

\* "i += 1": the scan goes on with the block after the one it has dealt with,
\* whether or not an occurrence was found and blocks were attached to it
SkipAttached(idx, created, attached) ==
    IF created THEN idx + 1 + Len(attached) ELSE idx + 1

NextBlockIndex(idx, created, attached) == idx + 1

\* "if is_successful: mark_todo_as_done(block)"
MarkAlways(is_successful) == TRUE

MarkInverted(is_successful) == ~is_successful

ShouldMark(is_successful) == is_successful

\* new_page_properties of create_todo_page, as the page the service creates
NewPage(new_id, source_page, clean_text, today) ==
    [id |-> new_id, created |-> today, finish |-> None,
     tags |-> {"Auto Generated"}, title |-> clean_text,
     parent |-> IF source_page.parent # <<>> THEN source_page.parent
                ELSE <<source_page.id>>,
     sub_items |-> <<>>]

\* children_blocks of create_todo_page
RECURSIVE CopyListBlocks(_)
CopyListBlocks(blks) ==
    IF blks = <<>> THEN <<>>
    ELSE (IF Head(blks).type \in list_block_types
          THEN <<Block(Head(blks).type, Head(blks).rich_text)>> ELSE <<>>)
         \o CopyListBlocks(Tail(blks))

SourceLink == <<"s">>

ChildrenBlocks(source_page, clean_text, list_blocks) ==
    <<Block("paragraph", <<TextSeg(clean_text, "")>>)>>
    \o CopyListBlocks(list_blocks)
    \o <<Block("paragraph", <<TextSeg(SourceLink, ""), TextSeg(SourceLink, "source")>>)>>

\* updated_sub_items of create_todo_page: source_properties is the page object
\* the query returned
UpdatedSubItems(source_page, new_id) == source_page.sub_items \o <<new_id>>

\* new_rich_text of mark_todo_as_done
NewRichText(rt) ==
    [k \in 1..Len(rt) |->
        [rt[k] EXCEPT !.content = TODO_REMOVE_sub(DONE, rt[k].content)]]

\* new_text_obj["text"]["content"] = ... raises KeyError on a segment without "text"
RaisesKeyError(rt) == \E k \in 1..Len(rt) : ~rt[k].hasText

\* update_payload of mark_todo_as_done
UpdatePayload(block) ==
    IF block.type = "to_do"
    THEN [rich_text |-> NewRichText(block.rich_text), checked |-> TRUE]
    ELSE [rich_text |-> NewRichText(block.rich_text)]

\* the service applies an update-block payload: plain_text follows text.content
ApplyUpdate(block, payload) ==
    [type |-> block.type,
     rich_text |-> [k \in 1..Len(payload.rich_text) |->
                      [payload.rich_text[k] EXCEPT
                          !.plain_text = IF payload.rich_text[k].hasText
                                         THEN payload.rich_text[k].content
                                         ELSE payload.rich_text[k].plain_text]],
     checked |-> IF "checked" \in DOMAIN payload THEN payload.checked ELSE block.checked]

(***************************************************************************)
(* State.                                                                  *)
(***************************************************************************)
VARIABLES
    \* the remote service
    db,            \* the pages of the database, in service order; db[k].id = k
    svcBlocks,     \* svcBlocks[k]: the top-level child blocks of page k
    pageSize,      \* items per response
    args,          \* the command line: args.date and args.since
    errs,          \* API errors raised so far
    \* the process (main, process_date, the generator)
    pc, day, next_cursor, response, qi, page, blocks, blk_cursor,
    i, lines, ln, clean_line, following_list_blocks, new_page_id,
    \* observation of the run
    yielded,       \* ids the generator of this process_date has yielded
    blkReqs,       \* start cursors sent by this get_page_blocks (None: omitted)
    occ,           \* per block of this scan: what was done for its occurrence
    resolved,      \* <<page, block, line, day>>: the update-block call for the
                   \* occurrence on that line of the block succeeded on that day
    lastCall,      \* the latest remote call and whether it succeeded
    lastUpdate     \* the latest update-block call: block as fetched, payload sent

cfgVars == <<pageSize, args>>
svcVars == <<db, svcBlocks, cfgVars>>
genVars == <<next_cursor, response, qi>>
scanVars == <<i, lines, ln, clean_line, following_list_blocks, new_page_id>>
vars == <<db, svcBlocks, pageSize, args, errs, pc, day, next_cursor, response, qi, page,
          blocks, blk_cursor, i, lines, ln, clean_line, following_list_blocks,
          new_page_id, yielded, blkReqs, occ, resolved, lastCall, lastUpdate>>

NoResponse == [results |-> <<>>, has_more |-> FALSE, next_cursor |-> None]
NoPage == [id |-> None]
NoOcc == [create |-> "none", creates |-> 0, line |-> 0, rec |-> None,
          marks |-> 0, updates |-> 0, updOk |-> FALSE]
NoUpdate == [page |-> None, idx |-> 0]

(***************************************************************************)
(* The command line.  A date string is well formed (dd.mm.yyyy, denoting a *)
(* day), malformed, or empty; an option that is not given has the value   *)
(* None (NotGiven).  Days are numbered; the run takes place on day Today.  *)
(***************************************************************************)
Today == NumDays

DateStr(d) == [given |-> TRUE, str |-> "dd.mm.yyyy", date |-> d]
Malformed == [given |-> TRUE, str |-> "malformed", date |-> None]
EmptyStr == [given |-> TRUE, str |-> "", date |-> None]
NotGiven == [given |-> FALSE, str |-> "", date |-> None]

ArgValues == {NotGiven, EmptyStr, Malformed} \cup {DateStr(d) : d \in 1..(Today + 1)}

\* truth value of an argument in "if args.date and args.since", "if args.since",
\* "if not date_str"
Truthy(a) == a.given /\ a.str # ""

ParseError == -1

\* parse_date_input: the day, or ParseError where it raises SystemExit
parse_date_input(date_str) ==
    IF ~Truthy(date_str) THEN Today
    ELSE IF date_str.str = "dd.mm.yyyy" THEN date_str.date
    ELSE ParseError

Init ==
    /\ \E n \in 1..MaxPages : \E a \in 1..Len(Layouts) :
          /\ a + n - 1 <= Len(Layouts)
          /\ db = [k \in 1..n |-> HumanPage(k, Layouts[a + k - 1])]
          /\ svcBlocks = [k \in 1..n |-> Layouts[a + k - 1].blocks]
    /\ pageSize \in 1..MaxPageSize
    /\ args \in [date : ArgValues, since : ArgValues]
    /\ errs = 0
    /\ pc = "main" /\ day = None
    /\ next_cursor = None /\ response = NoResponse /\ qi = 0
    /\ page = NoPage /\ blocks = <<>> /\ blk_cursor = None
    /\ i = 0 /\ lines = <<>> /\ ln = 0 /\ clean_line = <<>>
    /\ following_list_blocks = <<>> /\ new_page_id = None
    /\ yielded = <<>> /\ blkReqs = <<>> /\ occ = <<>>
    /\ resolved = {}
    /\ lastCall = [op |-> "none", ok |-> TRUE]
    /\ lastUpdate = NoUpdate

\* a remote call returns (ok) or raises APIResponseError
Call(op, ok) ==
    /\ ok \/ errs < MaxErrors
    /\ errs' = IF ok THEN errs ELSE errs + 1
    /\ lastCall' = [op |-> op, ok |-> ok]

NoCall == UNCHANGED <<errs, lastCall>>

(***************************************************************************)
(* get_all_database_pages                                                  *)
(***************************************************************************)
\* process_date calls the generator; client.databases.retrieve is outside the try
Retrieve ==
    /\ pc = "process_date"
    /\ \E ok \in BOOLEAN :
          /\ Call("retrieve", ok)
          /\ pc' = IF ok THEN "query" ELSE "uncaught_APIResponseError"
    /\ next_cursor' = None /\ response' = NoResponse /\ qi' = 0
    /\ yielded' = <<>>
    /\ UNCHANGED <<svcVars, day, page, blocks, blk_cursor, scanVars, blkReqs, occ,
                   resolved, lastUpdate>>

Matching(target_date) == SelectSeq(db, LAMBDA pg : date_filter(target_date, pg))

Query ==
    /\ pc = "query"
    /\ \E ok \in BOOLEAN :
          /\ Call("query", ok)
          /\ IF ok
             THEN /\ response' = ServePaginated(Matching(day),
                                     DatabaseQueryParams(day, next_cursor), pageSize)
                  /\ qi' = 1
                  /\ pc' = "yield"
             ELSE /\ pc' = "end_date"
                  /\ UNCHANGED <<response, qi>>
    /\ UNCHANGED <<svcVars, day, next_cursor, page, blocks, blk_cursor, scanVars,
                   yielded, blkReqs, occ, resolved, lastUpdate>>

\* "yield from response.get('results', [])": the next page goes to process_date
YieldPage ==
    /\ pc = "yield" /\ qi <= Len(response.results)
    /\ page' = response.results[qi]
    /\ yielded' = IF Len(yielded) <= Len(db)
                  THEN Append(yielded, response.results[qi].id) ELSE yielded
    /\ blocks' = <<>> /\ blk_cursor' = None /\ blkReqs' = <<>>
    /\ pc' = "get_page_blocks"
    /\ NoCall
    /\ UNCHANGED <<svcVars, day, genVars, scanVars, occ, resolved, lastUpdate>>

EndOfResponse ==
    /\ pc = "yield" /\ qi > Len(response.results)
    /\ next_cursor' = response.next_cursor
    /\ pc' = IF QueryLoopContinues(response) THEN "query" ELSE "end_date"
    /\ NoCall
    /\ UNCHANGED <<svcVars, day, response, qi, page, blocks, blk_cursor, scanVars,
                   yielded, blkReqs, occ, resolved, lastUpdate>>

(***************************************************************************)
(* get_page_blocks                                                         *)
(***************************************************************************)
ListBlocks ==
    /\ pc = "get_page_blocks"
    /\ LET params == BlockListParams(page.id, blk_cursor)
           resp == ServePaginated(svcBlocks[page.id], params, pageSize)
       IN  /\ blkReqs' = Append(blkReqs, IF "start_cursor" \in DOMAIN params
                                          THEN params.start_cursor ELSE None)
           /\ \E ok \in BOOLEAN :
                /\ Call("list", ok)
                /\ IF ok
                   THEN /\ blocks' = blocks \o resp.results
                        /\ blk_cursor' = resp.next_cursor
                        /\ pc' = IF BlockLoopContinues(resp)
                                 THEN "get_page_blocks" ELSE "fetched"
                   ELSE /\ pc' = "fetched"
                        /\ UNCHANGED <<blocks, blk_cursor>>
    /\ UNCHANGED <<svcVars, day, genVars, page, scanVars, yielded, occ, resolved,
                   lastUpdate>>

(***************************************************************************)
(* process_date: the scan of one page                                      *)
(***************************************************************************)
\* "found_todos = False ... i = 0" (positions are counted from 1 here)
StartScan ==
    /\ pc = "fetched"
    /\ i' = 1 /\ lines' = <<>> /\ ln' = 0
    /\ occ' = [b \in 1..Len(blocks) |-> NoOcc]
    /\ pc' = "while"
    /\ NoCall
    /\ UNCHANGED <<svcVars, day, genVars, page, blocks, blk_cursor, clean_line,
                   following_list_blocks, new_page_id, yielded, blkReqs, resolved,
                   lastUpdate>>

\* "while i < len(blocks): block = blocks[i]; text_content = ..."
NextBlock ==
    /\ pc = "while" /\ i <= Len(blocks)
    /\ lines' = splitlines(extract_text_from_block(blocks[i]))
    /\ ln' = 1
    /\ pc' = "for_line"
    /\ NoCall
    /\ UNCHANGED <<svcVars, day, genVars, page, blocks, blk_cursor, i, clean_line,
                   following_list_blocks, new_page_id, yielded, blkReqs, occ,
                   resolved, lastUpdate>>

\* the while loop ends: the generator is resumed for the next page
PageDone ==
    /\ pc = "while" /\ i > Len(blocks)
    /\ qi' = qi + 1
    /\ page' = NoPage /\ blocks' = <<>> /\ blk_cursor' = None
    /\ i' = 0 /\ lines' = <<>> /\ ln' = 0 /\ clean_line' = <<>>
    /\ following_list_blocks' = <<>> /\ new_page_id' = None
    /\ occ' = <<>> /\ blkReqs' = <<>>
    /\ pc' = "yield"
    /\ NoCall
    /\ UNCHANGED <<svcVars, day, next_cursor, response, yielded, resolved, lastUpdate>>

LineNoMatch ==
    /\ pc = "for_line" /\ ln <= Len(lines)
    /\ ~TODO_DETECT(lines[ln])
    /\ ln' = ln + 1
    /\ NoCall
    /\ UNCHANGED <<svcVars, day, genVars, page, blocks, blk_cursor, i, lines,
                   clean_line, following_list_blocks, new_page_id, pc, yielded,
                   blkReqs, occ, resolved, lastUpdate>>

\* "if TODO_DETECT.search(line):" up to the call of create_todo_page
LineMatch ==
    /\ pc = "for_line" /\ ln <= Len(lines)
    /\ TODO_DETECT(lines[ln])
    /\ clean_line' = CleanLine(lines[ln])
    /\ following_list_blocks' = FollowingListBlocks(blocks, i)
    /\ pc' = "create"
    /\ NoCall
    /\ UNCHANGED <<svcVars, day, genVars, page, blocks, blk_cursor, i, lines, ln,
                   new_page_id, yielded, blkReqs, occ, resolved, lastUpdate>>

\* the for loop over the lines ends (exhausted or left by break): "i += 1"
LinesDone ==
    /\ pc = "for_line" /\ ln > Len(lines)
    /\ i' = NextBlockIndex(i, occ[i].creates > 0, following_list_blocks)
    /\ pc' = "while"
    /\ NoCall
    /\ UNCHANGED <<svcVars, day, genVars, page, blocks, blk_cursor, lines, ln,
                   clean_line, following_list_blocks, new_page_id, yielded, blkReqs,
                   occ, resolved, lastUpdate>>

NumRecords == Cardinality({k \in 1..Len(db) : "Auto Generated" \in db[k].tags})

\* where process_date goes once create_todo_page has returned is_successful
AfterCreate(is_successful) ==
    IF ShouldMark(is_successful)
    THEN pc' = "mark" /\ UNCHANGED ln
    ELSE pc' = "for_line" /\ ln' = BreakLineLoop(ln, lines)

\* create_todo_page up to client.pages.create
CreatePage ==
    /\ pc = "create"
    /\ \E ok \in BOOLEAN :
          /\ ok => NumRecords < MaxRecords
          /\ Call("create", ok)
          /\ IF ok
             THEN /\ db' = Append(db, NewPage(Len(db) + 1, page,
                                              CleanText(clean_line), NumDays))
                  /\ svcBlocks' = Append(svcBlocks,
                        ChildrenBlocks(page, CleanText(clean_line), following_list_blocks))
                  /\ new_page_id' = Len(db) + 1
                  /\ occ' = [occ EXCEPT ![i].create = "ok", ![i].creates = @ + 1,
                                        ![i].line = ln, ![i].rec = Len(db) + 1]
                  /\ pc' = "update_sub_items"
                  /\ UNCHANGED ln
             ELSE /\ occ' = [occ EXCEPT ![i].create = "fail", ![i].creates = @ + 1,
                                        ![i].line = ln]
                  /\ AfterCreate(FALSE)
                  /\ UNCHANGED <<db, svcBlocks, new_page_id>>
    /\ UNCHANGED <<cfgVars, day, genVars, page, blocks, blk_cursor, i, lines,
                   clean_line, following_list_blocks, yielded, blkReqs, resolved,
                   lastUpdate>>

\* client.pages.update of create_todo_page, in its own try; then "return True"
UpdateSubItems ==
    /\ pc = "update_sub_items"
    /\ \E ok \in BOOLEAN :
          /\ Call("update_page", ok)
          /\ db' = IF ok
                   THEN [db EXCEPT ![page.id].sub_items = UpdatedSubItems(page, new_page_id)]
                   ELSE db
    /\ AfterCreate(TRUE)
    /\ UNCHANGED <<svcBlocks, cfgVars, day, genVars, page, blocks, blk_cursor, i,
                   lines, clean_line, following_list_blocks, new_page_id, yielded,
                   blkReqs, occ, resolved, lastUpdate>>

\* mark_todo_as_done(block), then the break of the line loop
MarkDone ==
    /\ pc = "mark"
    /\ IF RaisesKeyError(blocks[i].rich_text)
       THEN /\ pc' = "uncaught_KeyError"
            /\ occ' = [occ EXCEPT ![i].marks = @ + 1]
            /\ NoCall
            /\ UNCHANGED <<svcBlocks, blocks, ln, resolved, lastUpdate>>
       ELSE /\ \E ok \in BOOLEAN :
                 /\ Call("update_block", ok)
                 /\ occ' = [occ EXCEPT ![i].marks = @ + 1, ![i].updates = @ + 1,
                                       ![i].updOk = ok]
                 /\ svcBlocks' = IF ok
                      THEN [svcBlocks EXCEPT ![page.id][i] =
                               ApplyUpdate(@, UpdatePayload(blocks[i]))]
                      ELSE svcBlocks
                 /\ resolved' = IF ok THEN resolved \cup {<<page.id, i, occ[i].line, day>>} ELSE resolved
            /\ lastUpdate' = [page |-> page.id, idx |-> i, block |-> blocks[i],
                              payload |-> UpdatePayload(blocks[i])]
            \* text_obj.copy() is shallow: the fetched block is rewritten too
            /\ blocks' = [blocks EXCEPT ![i].rich_text = NewRichText(@)]
            /\ ln' = BreakLineLoop(ln, lines)
            /\ pc' = "for_line"
    /\ UNCHANGED <<db, cfgVars, day, genVars, page, blk_cursor, i, lines, clean_line,
                   following_list_blocks, new_page_id, yielded, blkReqs>>

(***************************************************************************)
(* main                                                                    *)
(***************************************************************************)
\* main from "if args.date and args.since" to the first call of process_date;
\* start_date, end_date and target_date are days
Main ==
    /\ pc = "main"
    /\ IF Truthy(args.date) /\ Truthy(args.since)
       THEN pc' = "SystemExit" /\ UNCHANGED day
       ELSE IF Truthy(args.since)
       THEN IF parse_date_input(args.since) = ParseError
                  \/ parse_date_input(args.since) > Today
            THEN pc' = "SystemExit" /\ UNCHANGED day
            ELSE day' = parse_date_input(args.since) /\ pc' = "process_date"
       ELSE IF parse_date_input(args.date) = ParseError
            THEN pc' = "SystemExit" /\ UNCHANGED day
            ELSE day' = parse_date_input(args.date) /\ pc' = "process_date"
    /\ NoCall
    /\ UNCHANGED <<svcVars, genVars, page, blocks, blk_cursor, scanVars, yielded,
                   blkReqs, occ, resolved, lastUpdate>>

\* process_date has returned: "while current_date <= end_date: ...
\* current_date += timedelta(days=1)" with --since, the end of main without
EndDate ==
    /\ pc = "end_date"
    /\ IF Truthy(args.since) /\ day < Today
       THEN day' = day + 1 /\ pc' = "process_date"
       ELSE pc' = "done" /\ UNCHANGED day
    /\ NoCall
    /\ UNCHANGED <<svcVars, genVars, page, blocks, blk_cursor, scanVars, yielded,
                   blkReqs, occ, resolved, lastUpdate>>

Next ==
    \/ Main
    \/ Retrieve \/ Query \/ YieldPage \/ EndOfResponse
    \/ ListBlocks
    \/ StartScan \/ NextBlock \/ PageDone
    \/ LineNoMatch \/ LineMatch \/ LinesDone
    \/ CreatePage \/ UpdateSubItems \/ MarkDone
    \/ EndDate

Spec == Init /\ [][Next]_vars

(***************************************************************************)
(* The extraction of the task text on its own: process_date stands at a    *)
(* line of the only block of the only page, the line drawn from all        *)
(* sequences of at most MaxPieces pieces; the detector and, on a match,    *)
(* create_todo_page are applied to it.                                     *)
(***************************************************************************)
Pieces ==
    { <<"T", "O", "D", "O">>, <<"t", "o", "-", "d", "o">>, <<"t", "o", " ", "d", "o">>,
      <<":">>, <<"-">>, <<" ">>, <<"[", " ", "]">>, <<"[", "x", "]">>, <<"a">> }

RECURSIVE Flatten(_)
Flatten(ps) == IF ps = <<>> THEN <<>> ELSE Head(ps) \o Flatten(Tail(ps))

InputLines == {Flatten(ps) : ps \in UNION {[1..n -> Pieces] : n \in 1..MaxPieces}}

\* the state of the run of "--since <day 1>" when the scan has reached the
\* first line of the block
InitExtract ==
    \E line \in InputLines :
        /\ db = <<HumanPage(1, [finish |-> None, parent |-> <<>>, sub_items |-> <<>>])>>
        /\ svcBlocks = << <<Block("paragraph", <<TextSeg(line, "")>>)>> >>
        /\ pageSize = 1
        /\ args = [date |-> NotGiven, since |-> DateStr(1)]
        /\ errs = 0
        /\ pc = "for_line" /\ day = 1
        /\ next_cursor = None /\ qi = 1
        /\ response = [results |-> db, has_more |-> FALSE, next_cursor |-> None]
        /\ page = db[1] /\ blocks = svcBlocks[1] /\ blk_cursor = None
        /\ i = 1 /\ lines = splitlines(line) /\ ln = 1 /\ clean_line = <<>>
        /\ following_list_blocks = <<>> /\ new_page_id = None
        /\ yielded = <<1>> /\ blkReqs = <<None>> /\ occ = <<NoOcc>>
        /\ resolved = {}
        /\ lastCall = [op |-> "list", ok |-> TRUE]
        /\ lastUpdate = NoUpdate

NextExtract == LineNoMatch \/ LineMatch \/ CreatePage

SpecExtract == InitExtract /\ [][NextExtract]_vars

(***************************************************************************)
(* Properties.                                                             *)
(***************************************************************************)
IsPrefix(a, b) == Len(a) <= Len(b) /\ SubSeq(b, 1, Len(a)) = a

\* the block at position b of the page under scan has been dealt with
Finished(b) == b < i

\* C1 (as stated): for every occurrence process_date has dealt with, the source
\* block was rewritten by a successful update-block call if and only if record
\* creation succeeded; mark_todo_as_done is never invoked after a failed create.
C1_ResolvedIffCreated ==
    \A b \in DOMAIN occ :
        /\ occ[b].create = "fail" => occ[b].marks = 0
        /\ Finished(b) => (occ[b].create = "ok" <=> occ[b].updOk)

\* C1 (amended): mark_todo_as_done is invoked for a detected occurrence exactly
\* once when create_todo_page succeeded and never when it failed; the block is
\* rewritten by a successful update-block call only if record creation succeeded.
C1_MarkInvokedIffCreated ==
    \A b \in DOMAIN occ :
        /\ occ[b].marks > 0 => occ[b].create = "ok"
        /\ (Finished(b) /\ occ[b].create = "ok") => occ[b].marks = 1
        /\ occ[b].updOk => occ[b].create = "ok"
        /\ occ[b].updates <= occ[b].marks

\* one occurrence whose creation failed and one whose creation succeeded but
\* whose update-block call failed, both dealt with in the same scan
C1_Witness ==
    \E b, c \in DOMAIN occ :
        /\ Finished(b) /\ occ[b].create = "fail"
        /\ Finished(c) /\ occ[c].create = "ok" /\ occ[c].updates = 1 /\ ~occ[c].updOk

\* the ids of the pages the query of target_date matches, in service order
MatchingIds(target_date) ==
    [k \in 1..Len(Matching(target_date)) |-> Matching(target_date)[k].id]

\* C2: without an API error get_all_database_pages yields every matching page
\* exactly once, in service order, and then stops, whatever the page size.
C2_PaginationExhaustive ==
    /\ pc \notin {"process_date"} => IsPrefix(yielded, MatchingIds(day))
    /\ (pc = "end_date" /\ ~(lastCall.op = "query" /\ ~lastCall.ok))
          => yielded = MatchingIds(day)

\* the response of the service to the block-list request that carries cursor c
BlockPage(page_id, c) ==
    ServePaginated(svcBlocks[page_id],
                   IF c = None THEN [block_id |-> page_id]
                   ELSE [block_id |-> page_id, start_cursor |-> c],
                   pageSize)

\* C3: without an API error get_page_blocks returns all top-level blocks of the
\* page, each once and in service order; the first request carries no cursor,
\* each later one the cursor of the previous response, and the loop stops only
\* at a response with has_more false.
C3_BlocksComplete ==
    (pc = "fetched" /\ lastCall.ok) =>
        /\ blocks = svcBlocks[page.id]
        /\ blkReqs # <<>> /\ blkReqs[1] = None
        /\ \A k \in 2..Len(blkReqs) :
              /\ BlockPage(page.id, blkReqs[k - 1]).has_more
              /\ blkReqs[k] = BlockPage(page.id, blkReqs[k - 1]).next_cursor
        /\ ~BlockPage(page.id, blkReqs[Len(blkReqs)]).has_more

\* blocks served over two or more responses have all been fetched
C3_Witness ==
    /\ pc = "fetched" /\ lastCall.ok
    /\ Len(blkReqs) >= 2 /\ Len(blocks) >= 3

\* the records created in this scan, in block order
RECURSIVE CreatedIn(_)
CreatedIn(o) ==
    IF o = <<>> THEN <<>>
    ELSE (IF Head(o).create = "ok" THEN <<Head(o).rec>> ELSE <<>>) \o CreatedIn(Tail(o))

\* C4: in a run without API errors, when a page has been scanned its Sub-item
\* relation on the service holds the entries it had plus the ids of all records
\* created from the page.
C4_SubItemsAppended ==
    (pc = "while" /\ i > Len(blocks) /\ errs = 0) =>
        db[page.id].sub_items = page.sub_items \o CreatedIn(occ)

\* C5: an occurrence whose block was marked by a successful update-block call
\* in an earlier process_date is not detected again (on the same line of the
\* same block) when a later process_date scans the page, so that no second
\* record is created for it.
C5_NoRedetection ==
    pc = "create" => \A d \in 1..(day - 1) : <<page.id, i, ln, d>> \notin resolved

\* the content the claim C6 expects for a segment that starts with the marker:
\* the text before the marker, "DONE ", the text after the marker and the
\* whitespace and colons that trail it
MarkerReplaced(content) ==
    Take(content, RunLen(content, 1, NonWordChars)) \o DONE
        \o Drop(content, TODO_REMOVE_End(content))

\* C6: the update mark_todo_as_done sends changes only the marker: at most one
\* segment differs from the block as fetched, in it the marker is replaced by
\* "DONE " and the text before the marker is kept, every link is kept, and
\* checked is set to true exactly for a to_do block.
C6_OnlyMarkerChanges ==
    lastUpdate.page # None =>
        LET old == lastUpdate.block.rich_text
            new == lastUpdate.payload.rich_text
            changed == {k \in 1..Len(old) : new[k] # old[k]}
        IN  /\ Len(new) = Len(old)
            /\ Cardinality(changed) <= 1
            /\ \A k \in 1..Len(old) : new[k].link = old[k].link
            /\ \A k \in changed : new[k].content = MarkerReplaced(old[k].content)
            /\ ("checked" \in DOMAIN lastUpdate.payload) <=> (lastUpdate.block.type = "to_do")
            /\ ("checked" \in DOMAIN lastUpdate.payload) => lastUpdate.payload.checked

\* C7: the blocks attached to an occurrence in block i are blocks i+1 .. i+n,
\* all of them bulleted or numbered list items, where block i+n+1 is not a list
\* item or does not exist; the created record carries exactly these, in order,
\* between its text paragraph and its source link.
C7_AttachmentsAreMaximalListRun ==
    LET n == Len(following_list_blocks)
        IsList(b) == b.type \in {"bulleted_list_item", "numbered_list_item"}
    IN  /\ pc \in {"create", "update_sub_items"} =>
              /\ i + n <= Len(blocks)
              /\ \A k \in 1..n : following_list_blocks[k] = blocks[i + k] /\ IsList(blocks[i + k])
              /\ i + n + 1 <= Len(blocks) => ~IsList(blocks[i + n + 1])
        /\ pc = "update_sub_items" =>
              /\ Len(svcBlocks[new_page_id]) = n + 2
              /\ \A k \in 1..n :
                    /\ svcBlocks[new_page_id][k + 1].type = blocks[i + k].type
                    /\ svcBlocks[new_page_id][k + 1].rich_text = blocks[i + k].rich_text

\* a record was created with two list items attached, the run ended by a
\* paragraph
C7_Witness ==
    /\ pc = "update_sub_items"
    /\ Len(following_list_blocks) = 2
    /\ i + 3 <= Len(blocks) /\ blocks[i + 3].type = "paragraph"

\* the lines of block b of the scan on which the detector matches
MatchingLines(b) ==
    LET lns == splitlines(extract_text_from_block(blocks[b]))
    IN  {k \in 1..Len(lns) : TODO_DETECT(lns[k])}

\* C8: in one scan of a page at most one create-page call and at most one
\* update-block call are issued per block, and the create-page call is for the
\* first line of the block that matches.
C8_AtMostOnePerBlock ==
    \A b \in DOMAIN occ :
        /\ occ[b].creates <= 1 /\ occ[b].updates <= 1
        /\ occ[b].creates = 1 =>
              /\ occ[b].line \in MatchingLines(b)
              /\ \A k \in MatchingLines(b) : occ[b].line <= k
        /\ (Finished(b) /\ MatchingLines(b) # {}) => occ[b].creates = 1

\* a block with two matching lines has been dealt with
C8_Witness ==
    \E b \in DOMAIN occ :
        Finished(b) /\ Cardinality(MatchingLines(b)) >= 2 /\ occ[b].creates = 1

\* C9: an API error during a read made for the Page Fetcher or the Block
\* Extractor, the database retrieval included, does not abort the run.
C9_ReadErrorsDoNotAbort ==
    (lastCall.op \in {"retrieve", "query", "list"} /\ ~lastCall.ok)
        => pc # "uncaught_APIResponseError"

\* the step raises an API error in one of the three writing calls
WriteError(op) == errs' = errs + 1 /\ lastCall'.op = op

\* what a step that raises an API error in a writing call does: a failed
\* create changes nothing on the service, is followed by no mark-as-done and
\* leaves the block; a failed sub-item update keeps the record and goes on to
\* mark-as-done; a failed update-block keeps the record and the block as they
\* were and leaves the block; no step removes a page from the database
C10_WriteErrorStep ==
    /\ WriteError("create") =>
          /\ db' = db /\ svcBlocks' = svcBlocks
          /\ pc' = "for_line" /\ ln' > Len(lines) /\ i' = i
          /\ occ'[i].creates = 1 /\ occ'[i].marks = 0
    /\ WriteError("update_page") =>
          /\ db' = db /\ svcBlocks' = svcBlocks
          /\ "Auto Generated" \in db[new_page_id].tags
          /\ pc' = "mark" /\ i' = i
    /\ WriteError("update_block") =>
          /\ db' = db /\ svcBlocks' = svcBlocks
          /\ "Auto Generated" \in db[occ[i].rec].tags
          /\ pc' = "for_line" /\ ln' > Len(lines) /\ i' = i
          /\ occ'[i].updates = 1
    /\ Len(db') >= Len(db)
    /\ \A k \in 1..Len(db) : db'[k].id = db[k].id /\ db'[k].tags = db[k].tags

\* C10: an API error in create-page, update-page-properties or update-block is
\* not retried, deletes no record and does not abort the run: process_date goes
\* on with the blocks after the occurrence; a failed mark-as-done leaves the
\* created record in place and the source block as it was.
C10_WriteErrorsAbandonOnlyTheOccurrence ==
    /\ [][C10_WriteErrorStep]_vars
    /\ [](\A b \in DOMAIN occ : occ[b].creates <= 1 /\ occ[b].updates <= 1)

\* after a failed update-block call for one block, a record was created for a
\* later block of the same page
C10_Witness ==
    \E b, c \in DOMAIN occ :
        /\ b < c
        /\ occ[b].create = "ok" /\ occ[b].updates = 1 /\ ~occ[b].updOk
        /\ "Auto Generated" \in db[occ[b].rec].tags
        /\ occ[c].create = "ok"

\* the invocations C11 is about: both options given, a malformed date string,
\* or a --since date after the current date
ArgumentError ==
    \/ args.date.given /\ args.since.given
    \/ args.date = Malformed \/ args.since = Malformed
    \/ args.since.str = "dd.mm.yyyy" /\ args.since.date > Today

\* C11: when main is invoked with both --date and --since, with a malformed
\* date string or with a --since date after the current date, the process
\* exits with an error and has issued no remote API request.
C11_ArgumentErrorsAbortBeforeRemoteCall ==
    ArgumentError => (pc \in {"main", "SystemExit"} /\ lastCall.op = "none")

AutoGenerated(pg) == "Auto Generated" \in pg.tags

\* a step that creates a record: the record carries the tag, and the page it is
\* derived from is not an auto-generated record
C12_CreateStep ==
    Len(db') > Len(db) =>
        /\ Len(db') = Len(db) + 1
        /\ AutoGenerated(db'[Len(db')])
        /\ page # NoPage /\ ~AutoGenerated(page) /\ ~AutoGenerated(db[page.id])

\* C12: every record create_todo_page creates carries the "Auto Generated" tag,
\* no response to a query of process_date holds a page with that tag, and no
\* page with that tag is yielded, scanned or used as the source of a record,
\* also on the date on which the records were created.
C12_AutoGeneratedNeverScanned ==
    /\ [][C12_CreateStep]_vars
    /\ [](/\ \A k \in 1..Len(response.results) : ~AutoGenerated(response.results[k])
          /\ \A k \in 1..Len(yielded) : ~AutoGenerated(db[yielded[k]])
          /\ page # NoPage => ~AutoGenerated(page) /\ ~AutoGenerated(db[page.id]))

\* a query for the date on which records of this run were created has been
\* answered
C12_Witness ==
    /\ pc = "yield" /\ lastCall = [op |-> "query", ok |-> TRUE]
    /\ \E k \in 1..Len(db) : AutoGenerated(db[k]) /\ db[k].created = day

\* t starts with the marker, as the detector delimits it
LeadingMarker(t) ==
    /\ MarkerLen(t, 1) > 0
    /\ (IF MarkerLen(t, 1) + 1 > Len(t) THEN TRUE ELSE ~IsWord(t[MarkerLen(t, 1) + 1]))

\* C13: the task text derived from a line on which the detector matches (the
\* title of the created record) starts with no marker, no colon and no hyphen.
C13_NoLeadingRemnant ==
    pc = "update_sub_items" =>
        LET t == db[new_page_id].title
        IN  /\ ~LeadingMarker(t)
            /\ t # <<>> => t[1] \notin {":", "-"}

\* the detector matches on some line of the text of block blk
HasMarker(blk) ==
    LET lns == splitlines(extract_text_from_block(blk))
    IN  \E k \in 1..Len(lns) : TODO_DETECT(lns[k])

\* block b lies in the run of list items that follows block a
AttachedTo(a, b) ==
    a < b /\ \A k \in (a + 1)..b : blocks[k].type \in list_block_types

ScanPositions == {"while", "for_line", "create", "update_sub_items", "mark"}

\* a step of the scan of a page: a block is entered at the current position,
\* it is left for the position after it, and only once no line of it matches
\* or a record has been requested for it; no other step of the scan, the
\* collection of the attachments included, moves the position
C14_ScanStep ==
    /\ (pc = "while" /\ pc' = "for_line") =>
          i' = i /\ lines' = splitlines(extract_text_from_block(blocks[i]))
    /\ (pc = "for_line" /\ pc' = "while") =>
          /\ i' = i + 1
          /\ occ[i].creates = 0 => ~HasMarker(blocks[i])
    /\ (pc \in ScanPositions /\ pc' \in ScanPositions
            /\ ~(pc = "for_line" /\ pc' = "while")) => i' = i

\* C14: the scan of a page visits the blocks one position at a time, and a
\* list-item block that was copied into the record of a preceding occurrence
\* is scanned as well: when the scan has passed it and its text (as copied)
\* has a line the detector matches, a record was requested for it too, and
\* mark_todo_as_done was invoked on it when that record was created.
C14_AttachedBlocksStillScanned ==
    /\ [][C14_ScanStep]_vars
    /\ [](\A a, b \in DOMAIN occ :
            (AttachedTo(a, b) /\ occ[a].create = "ok" /\ Finished(b)) =>
                LET copy == svcBlocks[occ[a].rec][b - a + 1]
                IN  /\ copy.type = blocks[b].type
                    /\ HasMarker(copy) =>
                          /\ occ[b].creates = 1
                          /\ occ[b].create = "ok" => occ[b].marks = 1)

\* a list item with a marker was attached to the record of the block before
\* it, and has then got a record of its own and been rewritten at the service
C14_Witness ==
    \E a, b \in DOMAIN occ :
        /\ AttachedTo(a, b) /\ occ[a].create = "ok" /\ Finished(b)
        /\ HasMarker(svcBlocks[occ[a].rec][b - a + 1])
        /\ occ[b].create = "ok" /\ occ[b].rec # occ[a].rec /\ occ[b].updOk
        /\ ~HasMarker(svcBlocks[page.id][b])

====
